---------------------------- MODULE Spec2Model ----------------------------
(***************************************************************************)
(* Access-token acquisition and caching of the dingtalk crate.             *)
(*                                                                         *)
(*   tenant domain: OrgApp::get_access_token   (src/src/organization.rs)   *)
(*   app domain:    DingTalk::set_app_access_token / get_app_access_token  *)
(*                                             (src/src/core.rs)           *)
(*                                                                         *)
(* The Store is the Redis server behind the deadpool pool (GET, SET,       *)
(* SETEX), the Issuer is the remote token endpoint.  Every .await of the   *)
(* code is one step of a task, so tasks interleave exactly at the          *)
(* suspension points of the source.                                        *)
(*                                                                         *)
(*   Spec           concurrent token calls, time passing, Redis outages    *)
(*   SpecCancel     the same calls, each of which may be dropped at an     *)
(*                  .await; Redis stays reachable                          *)
(*   SpecConsumers  one caller making the consumer operations              *)
(*                  (organization.rs, contact.rs) one after another        *)
(***************************************************************************)
EXTENDS Integers, Sequences, FiniteSets, TLC

VARIABLES
    pc,         \* pc[t]: position of task t inside its current operation
    call,       \* call[t]: the operation and the receiver's fields (appid, corp_id)
    value,      \* call-local `value: Option<String>` of the GET
    result,     \* call-local parsed Issuer response (`result` / `at`)
    ret,        \* what the operation handed to its caller
    held,       \* pooled connections the task's frame currently owns
    ncalls,     \* Issuer calls made by the task's current operation
    resp,       \* how the operation's Issuer call ended: "none" (not made), "ok", "failed"
    consumer,   \* consumer[t]: the consumer operation the token call is part of, or "none"
    at_tok,     \* consumer-local `at`: the token the consumer's match bound
    napi,       \* DingTalk API calls made by the task's consumer operation
    store,      \* Redis: key -> entry (value, expiry) or NoEntry
    now,        \* Redis server clock, seconds
    storeUp,    \* whether Redis is reachable
    issued,     \* history: number of tokens the Issuer has issued so far
    expired,    \* history: expired[k], a record under key k has run out
    sawExpired, \* history: sawExpired[t], t's GET came after a record of its key ran out
    floored     \* history: a token declared with a lifetime <= 0 has been written

vars == <<pc, call, value, result, ret, held, ncalls, resp, consumer, at_tok, napi,
          store, now, storeUp, issued, expired, sawExpired, floored>>

---------------------------------------------------------------------------
(* Bounds of the model *)

NumTasks == 2
PoolSize == 2
TicksPerTTL == 2
MaxTicks == 2

(* The expiry the tenant domain passes to SETEX *)
SETEX_SECONDS == 7200

Tasks == 1 .. NumTasks

\* Identifier strings; the same literal may be configured as an application
\* id and as a corp id.
Ids == {1, 2}
CorpIds == Ids

\* The DingTalk instances whose app-domain operations are called
AppIds == {1}

\* The OrgApp facades built by set_corp_id: an application whose id is also
\* its tenant's corp id, a second application on the same tenant, and the
\* first application on a second tenant
OrgApps == {[appid |-> 1, corp_id |-> 1], [appid |-> 2, corp_id |-> 1],
            [appid |-> 1, corp_id |-> 2]}

TickStep == SETEX_SECONDS \div TicksPerTTL
MaxTime == MaxTicks * TickStep

\* expires_in values the tenant endpoint may declare (remote-controlled
\* input, an i32): the usual one, zero and a negative one
DeclaredLifetimes == {-1, 0, SETEX_SECONDS}

\* expireIn values the app endpoint may declare; no code path reads the field
AppLifetimes == {SETEX_SECONDS}

---------------------------------------------------------------------------
(* Strings and Option values *)

None == <<>>
Some(s) == <<s>>

\* a token string as issued by the remote endpoint (the n-th issued token)
TokenString(n) == <<"tok", n>>

\* struct AccessToken of core.rs
AppAccessToken(tok, corp, exp) ==
    [access_token |-> tok, refresh_token |-> tok, corp_id |-> corp, expire_in |-> exp]

\* serde_json::to_string(&at): the JSON text of the record
to_string(at) == <<"json", at.access_token, at.refresh_token, at.corp_id, at.expire_in>>

\* serde_json::from_str::<AccessToken>(&bytes): a token string is not a JSON
\* object with the four fields, only the text written by to_string is.
from_str_ok(s) == s[1] = "json"
from_str(s) == AppAccessToken(s[2], s[4], s[5])

---------------------------------------------------------------------------
(* Redis commands *)

NoEntry == [val |-> None, exp |-> None]

Live(e, time) == e # NoEntry /\ (e.exp = None \/ e.exp[1] > time)

\* GET key
RedisGet(st, key, time) == IF Live(st[key], time) THEN Some(st[key].val) ELSE None

\* SET key value: no expiry
RedisSet(st, key, v) == [st EXCEPT ![key] = [val |-> v, exp |-> None]]

\* SETEX key seconds value
RedisSetex(st, key, seconds, v, time) ==
    [st EXCEPT ![key] = [val |-> v, exp |-> Some(time + seconds)]]

\* keys whose expiry has passed are gone
RedisExpire(st, time) == [k \in Ids |-> IF Live(st[k], time) THEN st[k] ELSE NoEntry]

---------------------------------------------------------------------------
(* Results *)

NoRet == [status |-> "none", val |-> None]
Ok(v) == [status |-> "ok", val |-> Some(v)]
Err == [status |-> "err", val |-> None]
Panic == [status |-> "panic", val |-> None]

NoCall == [op |-> "none", appid |-> 0, corp_id |-> 0]
NoResult == [access_token |-> 0, refresh_token |-> 0, corp_id |-> 0, expire_in |-> 0]

\* struct AccessToken of organization.rs as parsed from the Issuer's body
OrgAccessToken(tok, exp) ==
    [access_token |-> tok, refresh_token |-> 0, corp_id |-> 0, expire_in |-> exp]

\* what the remote endpoint may answer
IssuerOutcomes == {"transport", "status", "parse", "ok"}

PoolInUse == LET Sum[n \in 0 .. NumTasks] == IF n = 0 THEN 0 ELSE held[n] + Sum[n - 1]
             IN Sum[NumTasks]

Init ==
    /\ pc = [t \in Tasks |-> "idle"]
    /\ call = [t \in Tasks |-> NoCall]
    /\ value = [t \in Tasks |-> None]
    /\ result = [t \in Tasks |-> NoResult]
    /\ ret = [t \in Tasks |-> NoRet]
    /\ held = [t \in Tasks |-> 0]
    /\ ncalls = [t \in Tasks |-> 0]
    /\ resp = [t \in Tasks |-> "none"]
    /\ consumer = [t \in Tasks |-> "none"]
    /\ at_tok = [t \in Tasks |-> None]
    /\ napi = [t \in Tasks |-> 0]
    /\ store = [k \in Ids |-> NoEntry]
    /\ now = 0
    /\ storeUp = TRUE
    /\ issued = 0
    /\ expired = [k \in Ids |-> FALSE]
    /\ sawExpired = [t \in Tasks |-> FALSE]
    /\ floored = FALSE

\* the task goes on to position p of its operation
Goto(t, p) ==
    /\ pc' = [pc EXCEPT ![t] = p]
    /\ ret' = ret
    /\ at_tok' = at_tok

\* the task's outermost operation ends with outcome r; every local of the
\* task, its pooled connections among them, is dropped
Finish(t, r) ==
    /\ pc' = [pc EXCEPT ![t] = "done"]
    /\ ret' = [ret EXCEPT ![t] = r]
    /\ held' = [held EXCEPT ![t] = 0]
    /\ value' = [value EXCEPT ![t] = None]
    /\ result' = [result EXCEPT ![t] = NoResult]
    /\ at_tok' = [at_tok EXCEPT ![t] = None]

\* variant: the consumer goes on to its API call whatever the token call gave
Proceeds_Always(r) == TRUE

\* let at = match self.get_access_token().await { Ok(at) => at, .. }
Proceeds(r) == r.status = "ok"

\* the token operation leaves with outcome r; the frame's locals, its pooled
\* connections among them, are dropped.  Called directly, r is the task's
\* outcome; called by a consumer,
\*     match .. { Ok(at) => at, Err(e) => return Err(e) }
\* binds the token and goes on to the API call, or returns the error (a
\* panic unwinds the consumer as well)
Leave(t, r) ==
    IF consumer[t] # "none" /\ Proceeds(r)
    THEN /\ pc' = [pc EXCEPT ![t] = "api"]
         /\ ret' = ret
         /\ at_tok' = [at_tok EXCEPT ![t] = r.val]
         /\ held' = [held EXCEPT ![t] = 0]
         /\ value' = [value EXCEPT ![t] = None]
         /\ result' = [result EXCEPT ![t] = NoResult]
    ELSE Finish(t, r)

\* self.rdb.get().await.unwrap(): the pool is built with its default
\* configuration (lib.rs), so the call waits, without a timeout, until one of
\* the pool's slots is free; it then gets a connection, or panics when Redis
\* cannot be reached
PoolGet(t, p) ==
    /\ PoolInUse < PoolSize
    /\ IF storeUp
       THEN /\ held' = [held EXCEPT ![t] = @ + 1]
            /\ Goto(t, p)
            /\ UNCHANGED <<value, result>>
       ELSE Leave(t, Panic)
    /\ UNCHANGED <<call, consumer, napi, ncalls, resp, store, now, storeUp, issued, expired, sawExpired, floored>>

\* variant: every facade reads one and the same key
QueryGet_Shared(key) ==
    IF storeUp THEN RedisGet(store, CHOOSE k \in Ids : \A j \in Ids : k <= j, now) ELSE None

\* cmd("GET").arg(key).query_async(&mut rdb).await.unwrap_or(None)
QueryGet(key) == IF storeUp THEN RedisGet(store, key, now) ELSE None

---------------------------------------------------------------------------
(* Environment *)

\* variant: the constructor takes a connection of the pool for the facade
set_corp_id_Eager(t, f) ==
    /\ call' = [call EXCEPT ![t] =
                 [op |-> "org", appid |-> f.appid, corp_id |-> f.corp_id]]
    /\ held' = [held EXCEPT ![t] = 1]
    /\ UNCHANGED <<ncalls, resp, store, issued>>

\* DingTalk::set_corp_id / OrgApp::new: the facade's fields are the
\* DingTalk's appid, its app_secret, a clone of its pool handle, the corp id
\* given and a new reqwest Client
set_corp_id(t, f) ==
    /\ call' = [call EXCEPT ![t] =
                 [op |-> "org", appid |-> f.appid, corp_id |-> f.corp_id]]
    /\ UNCHANGED <<held, ncalls, resp, store, issued>>

\* a caller starts one of the three token operations on a facade; every call
\* is a task of its own, and task t is the t-th call started
Start(t) ==
    /\ pc[t] = "idle"
    /\ \A u \in Tasks : u < t => pc[u] # "idle"
    /\ \/ \E f \in OrgApps :
            \* the facade is built, then get_access_token is called on it
            /\ set_corp_id(t, f)
            /\ pc' = [pc EXCEPT ![t] = "org_conn1"]
       \/ \E a \in AppIds :
            /\ call' = [call EXCEPT ![t] = [op |-> "set_app", appid |-> a, corp_id |-> 0]]
            /\ pc' = [pc EXCEPT ![t] = "set_issue"]
            /\ UNCHANGED <<held, ncalls, resp, store, issued>>
       \/ \E a \in AppIds :
            /\ call' = [call EXCEPT ![t] = [op |-> "get_app", appid |-> a, corp_id |-> 0]]
            /\ pc' = [pc EXCEPT ![t] = "get_conn"]
            /\ UNCHANGED <<held, ncalls, resp, store, issued>>
    /\ UNCHANGED <<value, result, ret, consumer, at_tok, napi, now, storeUp, expired,
                   sawExpired, floored>>

\* time passes on the Redis server
Tick ==
    /\ now < MaxTime
    /\ now' = now + TickStep
    /\ store' = RedisExpire(store, now')
    /\ expired' = [k \in Ids |-> expired[k] \/ store'[k] # store[k]]
    /\ UNCHANGED <<pc, call, consumer, at_tok, napi, value, result, ret, held, ncalls, resp, storeUp,
                   issued, sawExpired, floored>>

StoreDown ==
    /\ storeUp
    /\ storeUp' = FALSE
    /\ UNCHANGED <<pc, call, consumer, at_tok, napi, value, result, ret, held, ncalls, resp, store, now,
                   issued, expired, sawExpired, floored>>

StoreRecover ==
    /\ ~storeUp
    /\ storeUp' = TRUE
    /\ UNCHANGED <<pc, call, consumer, at_tok, napi, value, result, ret, held, ncalls, resp, store, now,
                   issued, expired, sawExpired, floored>>

---------------------------------------------------------------------------
(* OrgApp::get_access_token *)

\* let mut rdb = self.rdb.get().await.unwrap();
OrgGetConn1(t) ==
    /\ pc[t] = "org_conn1"
    /\ PoolGet(t, "org_get")

\* variant: the cached value is never taken
OrgCached_Never(v) == FALSE

\* if let Some(bytes) = value
OrgCached(v) == v # None

\* let value: Option<String> = cmd("GET").arg(&self.corp_id)...unwrap_or(None);
\* if let Some(bytes) = value { return Ok(bytes); }
OrgGet(t) ==
    /\ pc[t] = "org_get"
    /\ LET v == QueryGet(call[t].corp_id)
       IN IF OrgCached(v)
          THEN Leave(t, Ok(v[1]))
          ELSE /\ value' = [value EXCEPT ![t] = v]
               /\ Goto(t, "org_issue")
               /\ UNCHANGED <<held, result>>
    /\ sawExpired' = [sawExpired EXCEPT ![t] = storeUp /\ expired[call[t].corp_id]]
    /\ UNCHANGED <<call, consumer, napi, ncalls, resp, store, now, storeUp, issued, expired, floored>>

\* variant: the request's errors, the status and the parse are not checked
OrgIssued_Unchecked(outcome) == TRUE

\* send().await?, the status check and response.json::<AccessToken>().await?
\* all passed
OrgIssued(outcome) == outcome = "ok"

\* variant: a failed request is sent again
OrgIssue_Retry(t) ==
    /\ pc[t] = "org_issue"
    /\ ncalls' = [ncalls EXCEPT ![t] = @ + 1]
    /\ \E outcome \in IssuerOutcomes :
         /\ resp' = [resp EXCEPT ![t] = IF outcome = "ok" THEN "ok" ELSE "failed"]
         /\ IF OrgIssued(outcome)
            THEN /\ \E e \in DeclaredLifetimes :
                      result' = [result EXCEPT ![t] = OrgAccessToken(issued + 1, e)]
                 /\ issued' = issued + 1
                 /\ Goto(t, "org_conn2")
                 /\ UNCHANGED <<held, value>>
            ELSE /\ Goto(t, "org_issue")
                 /\ UNCHANGED <<held, value, result, issued>>
    /\ UNCHANGED <<call, consumer, napi, store, now, storeUp, expired, sawExpired, floored>>

\* self.client.post(.../oauth2/{corp_id}/token).json(&params).send().await?;
\* if !response.status().is_success() { return Err(..) }
\* let result = response.json::<AccessToken>().await?;
OrgIssue(t) ==
    /\ pc[t] = "org_issue"
    /\ ncalls' = [ncalls EXCEPT ![t] = @ + 1]
    /\ \E outcome \in IssuerOutcomes :
         /\ resp' = [resp EXCEPT ![t] = IF outcome = "ok" THEN "ok" ELSE "failed"]
         /\ IF OrgIssued(outcome)
            THEN /\ \E e \in DeclaredLifetimes :
                      result' = [result EXCEPT ![t] = OrgAccessToken(issued + 1, e)]
                 /\ issued' = issued + 1
                 /\ Goto(t, "org_conn2")
                 /\ UNCHANGED <<held, value>>
            ELSE /\ Leave(t, Err)
                 /\ issued' = issued
    /\ UNCHANGED <<call, consumer, napi, store, now, storeUp, expired, sawExpired, floored>>

\* let mut rdb = self.rdb.get().await.unwrap();   (the first rdb is still owned)
OrgGetConn2(t) ==
    /\ pc[t] = "org_conn2"
    /\ PoolGet(t, "org_setex")

\* variant: the record is written under the application id
OrgStore_WrongKey(st, self, res, time) ==
    RedisSetex(st, self.appid, SETEX_SECONDS, TokenString(res.access_token), time)

\* variant: SET instead of SETEX
OrgStore_NoExpiry(st, self, res, time) ==
    RedisSet(st, self.corp_id, TokenString(res.access_token))

\* variant: SET .. NX, a record that is still there is kept
OrgStore_KeepFirst(st, self, res, time) ==
    IF Live(st[self.corp_id], time)
    THEN st
    ELSE RedisSetex(st, self.corp_id, SETEX_SECONDS, TokenString(res.access_token), time)

\* variant: SET .. KEEPTTL, a record that is still there keeps its expiry
OrgStore_KeepExpiry(st, self, res, time) ==
    IF Live(st[self.corp_id], time)
    THEN [st EXCEPT ![self.corp_id].val = TokenString(res.access_token)]
    ELSE RedisSetex(st, self.corp_id, SETEX_SECONDS, TokenString(res.access_token), time)

\* variant: the new token is returned but not written
OrgStore_NotWritten(st, self, res, time) == st

\* variant: the declared lifetime is handed to SETEX
OrgStore_DeclaredTtl(st, self, res, time) ==
    RedisSetex(st, self.corp_id, res.expire_in, TokenString(res.access_token), time)

\* cmd("SETEX").arg(&self.corp_id).arg(7200).arg(&result.access_token)
OrgStore(st, self, res, time) ==
    RedisSetex(st, self.corp_id, SETEX_SECONDS, TokenString(res.access_token), time)

\* cmd("SETEX")....query_async::<()>(&mut rdb).await.unwrap();
\* Ok(result.access_token)
OrgSetex(t) ==
    /\ pc[t] = "org_setex"
    /\ IF storeUp
       THEN /\ store' = OrgStore(store, call[t], result[t], now)
            /\ Leave(t, Ok(TokenString(result[t].access_token)))
       ELSE /\ Leave(t, Panic)
            /\ store' = store
    /\ floored' = (floored \/ (storeUp /\ result[t].expire_in <= 0))
    /\ UNCHANGED <<call, consumer, napi, ncalls, resp, now, storeUp, issued, expired, sawExpired>>

---------------------------------------------------------------------------
(* DingTalk::set_app_access_token *)

\* variant: the exchange's errors, the status and the parse are not checked
AppIssued_Unchecked(outcome) == TRUE

\* send().await?, the status check and response.json::<AccessToken>().await?
\* of the exchange all passed
AppIssued(outcome) == outcome = "ok"

\* self.client.post(.../oauth2/userAccessToken).json(&params).send().await?;
\* if !response.status().is_success() { return Err(..) }
\* let at = response.json::<AccessToken>().await?;
SetAppIssue(t) ==
    /\ pc[t] = "set_issue"
    /\ ncalls' = [ncalls EXCEPT ![t] = @ + 1]
    /\ \E outcome \in IssuerOutcomes :
         /\ resp' = [resp EXCEPT ![t] = IF outcome = "ok" THEN "ok" ELSE "failed"]
         /\ IF AppIssued(outcome)
            THEN /\ \E c \in CorpIds, e \in AppLifetimes :
                      result' = [result EXCEPT ![t] = AppAccessToken(issued + 1, c, e)]
                 /\ issued' = issued + 1
                 /\ Goto(t, "set_conn")
                 /\ UNCHANGED <<held, value>>
            ELSE /\ Leave(t, Err)
                 /\ issued' = issued
    /\ UNCHANGED <<call, consumer, napi, store, now, storeUp, expired, sawExpired, floored>>

\* let mut rdb = self.rdb.get().await.unwrap();
SetAppGetConn(t) ==
    /\ pc[t] = "set_conn"
    /\ PoolGet(t, "set_set")

\* cmd("SET").arg(&self.appid).arg(serde_json::to_string(&at)?)
AppStore(st, self, at) == RedisSet(st, self.appid, to_string(at))

\* cmd("SET")....query_async::<()>(&mut rdb).await.unwrap();   Ok(at.corp_id)
SetAppSet(t) ==
    /\ pc[t] = "set_set"
    /\ IF storeUp
       THEN /\ store' = AppStore(store, call[t], result[t])
            /\ Leave(t, Ok(<<"id", result[t].corp_id>>))
       ELSE /\ Leave(t, Panic)
            /\ store' = store
    /\ UNCHANGED <<call, consumer, napi, ncalls, resp, now, storeUp, issued, expired, sawExpired, floored>>

---------------------------------------------------------------------------
(* DingTalk::get_app_access_token *)

\* let mut rdb = self.rdb.get().await.unwrap();
GetAppGetConn(t) ==
    /\ pc[t] = "get_conn"
    /\ PoolGet(t, "get_get")

\* variant: a lookup that finds nothing goes on to the exchange
GetAppGet_IssueOnMiss(t) ==
    /\ pc[t] = "get_get"
    /\ LET v == QueryGet(call[t].appid)
       IN IF v # None
          THEN IF from_str_ok(v[1])
               THEN Leave(t, Ok(TokenString(from_str(v[1]).access_token)))
               ELSE Leave(t, Panic)
          ELSE /\ Goto(t, "set_issue")
               /\ held' = [held EXCEPT ![t] = 0]
               /\ UNCHANGED <<value, result>>
    /\ UNCHANGED <<call, consumer, napi, ncalls, resp, store, now, storeUp, issued,
                   expired, sawExpired, floored>>

\* let value: Option<String> = cmd("GET").arg(&self.appid)...unwrap_or(None);
\* if let Some(bytes) = value {
\*     let value: AccessToken = serde_json::from_str(&bytes).unwrap();
\*     return Ok(value.access_token); }
\* Err("Failed to get access token".into())
GetAppGet(t) ==
    /\ pc[t] = "get_get"
    /\ LET v == QueryGet(call[t].appid)
       IN IF v # None
          THEN IF from_str_ok(v[1])
               THEN Leave(t, Ok(TokenString(from_str(v[1]).access_token)))
               ELSE Leave(t, Panic)
          ELSE Leave(t, Err)
    /\ UNCHANGED <<call, consumer, napi, ncalls, resp, store, now, storeUp, issued, expired, sawExpired, floored>>

---------------------------------------------------------------------------

Next ==
    \/ \E t \in Tasks : Start(t)
    \/ Tick
    \/ StoreDown
    \/ StoreRecover
    \/ \E t \in Tasks : OrgGetConn1(t)
    \/ \E t \in Tasks : OrgGet(t)
    \/ \E t \in Tasks : OrgIssue(t)
    \/ \E t \in Tasks : OrgGetConn2(t)
    \/ \E t \in Tasks : OrgSetex(t)
    \/ \E t \in Tasks : SetAppIssue(t)
    \/ \E t \in Tasks : SetAppGetConn(t)
    \/ \E t \in Tasks : SetAppSet(t)
    \/ \E t \in Tasks : GetAppGetConn(t)
    \/ \E t \in Tasks : GetAppGet(t)

Spec == Init /\ [][Next]_vars

---------------------------------------------------------------------------
(* Cancellation: the caller drops the future of a call in flight *)

Cancelled == [status |-> "cancelled", val |-> None]

\* the positions at which a call is suspended on an .await
Suspended(t) == pc[t] \notin {"idle", "done"}

\* variant: the record is written by SET and then EXPIRE, and the future may
\* be dropped between the two commands
CancelledWrite_TwoCommands(st, self, res, time) ==
    {st, RedisSet(st, self.corp_id, TokenString(res.access_token)),
     RedisSetex(st, self.corp_id, SETEX_SECONDS, TokenString(res.access_token), time)}

\* what a get_access_token dropped at its SETEX .await may leave: the one
\* command was not yet sent, or Redis has run it whole
CancelledWrite(st, self, res, time) == {st, OrgStore(st, self, res, time)}

\* the same for the SET of set_app_access_token
CancelledAppWrite(st, self, at) == {st, AppStore(st, self, at)}

\* the future of task t's call is dropped at the .await it is suspended on;
\* its locals are dropped with it, nothing is handed to the caller and
\* nothing of the call remains
Cancel(t) ==
    /\ Suspended(t)
    /\ Leave(t, Cancelled)
    /\ store' \in IF ~storeUp THEN {store}
                  ELSE IF pc[t] = "org_setex"
                       THEN CancelledWrite(store, call[t], result[t], now)
                  ELSE IF pc[t] = "set_set"
                       THEN CancelledAppWrite(store, call[t], result[t])
                  ELSE {store}
    /\ ncalls' = [ncalls EXCEPT ![t] = 0]
    /\ resp' = [resp EXCEPT ![t] = "none"]
    /\ sawExpired' = [sawExpired EXCEPT ![t] = FALSE]
    /\ floored' = (floored \/ (/\ pc[t] = "org_setex" /\ store' # store
                                /\ result[t].expire_in <= 0))
    /\ UNCHANGED <<call, consumer, napi, now, storeUp, issued, expired>>

\* the calls of Spec with a reachable Redis, each of which may be dropped
NextCancel ==
    \/ \E t \in Tasks : Start(t)
    \/ Tick
    \/ \E t \in Tasks : OrgGetConn1(t)
    \/ \E t \in Tasks : OrgGet(t)
    \/ \E t \in Tasks : OrgIssue(t)
    \/ \E t \in Tasks : OrgGetConn2(t)
    \/ \E t \in Tasks : OrgSetex(t)
    \/ \E t \in Tasks : SetAppIssue(t)
    \/ \E t \in Tasks : SetAppGetConn(t)
    \/ \E t \in Tasks : SetAppSet(t)
    \/ \E t \in Tasks : GetAppGetConn(t)
    \/ \E t \in Tasks : GetAppGet(t)
    \/ \E t \in Tasks : Cancel(t)

SpecCancel == Init /\ [][NextCancel]_vars

---------------------------------------------------------------------------
(* The consumer operations: a token call, then the DingTalk API call *)

\* the consumers of OrgApp; get_userinfo runs get_user_id first
OrgConsumers == {"get_organization", "get_userinfo", "get_employee_count",
                 "query_on_job_employees", "query_off_job_employees",
                 "get_employee_userinfo"}

\* the facades whose consumers are called
ConsumerApps == OrgApps

\* how the API request may end: send().await?, the status check, .json().await?
ApiOutcomes == {"transport", "status", "parse", "ok"}

\* the body the API answered to consumer c
Body(c) == <<"body", c>>

\* the caller, having taken the outcome of its previous call, makes its
\* next call: operation c of the receiver's fields in f, entered at p
Begin(t, c, f, p) ==
    /\ call' = [u \in Tasks |-> IF u = t THEN f ELSE NoCall]
    /\ consumer' = [u \in Tasks |-> IF u = t THEN c ELSE "none"]
    /\ pc' = [pc EXCEPT ![t] = p]
    /\ ret' = [u \in Tasks |-> NoRet]
    /\ ncalls' = [u \in Tasks |-> 0]
    /\ resp' = [u \in Tasks |-> "none"]
    /\ napi' = [u \in Tasks |-> 0]
    /\ sawExpired' = [u \in Tasks |-> FALSE]

\* one caller awaits its calls one after another: a consumer operation, the
\* exchange that stores the app token, or get_app_access_token itself
StartConsumer(t) ==
    /\ pc[t] = "idle"
    /\ \A u \in Tasks : u < t => pc[u] = "done"
    /\ \/ \E f \in ConsumerApps, c \in OrgConsumers :
            Begin(t, c, [op |-> "org", appid |-> f.appid, corp_id |-> f.corp_id],
                  "org_conn1")
       \/ \E a \in AppIds :
            Begin(t, "get_contact_userinfo",
                  [op |-> "get_app", appid |-> a, corp_id |-> 0], "get_conn")
       \/ \E a \in AppIds :
            Begin(t, "none", [op |-> "get_app", appid |-> a, corp_id |-> 0], "get_conn")
       \/ \E a \in AppIds :
            Begin(t, "none", [op |-> "set_app", appid |-> a, corp_id |-> 0], "set_issue")
    /\ UNCHANGED <<value, result, held, at_tok, store, now, storeUp, issued, expired,
                   floored>>

\* self.client.get(&url).headers(headers).send().await?  (post(..) with the
\* token in the query for the oapi endpoints), the status check and
\* response.json().await?; get_userinfo, once its get_user_id has returned
\* the id, goes on to its own get_access_token
ConsumerApi(t) ==
    /\ pc[t] = "api"
    /\ napi' = [napi EXCEPT ![t] = @ + 1]
    /\ \E outcome \in ApiOutcomes :
         IF outcome # "ok"
         THEN /\ Finish(t, Err)
              /\ UNCHANGED <<ncalls, resp, sawExpired>>
         ELSE IF consumer[t] = "get_userinfo" /\ napi[t] = 0
         THEN /\ pc' = [pc EXCEPT ![t] = "org_conn1"]
              /\ at_tok' = [at_tok EXCEPT ![t] = None]
              /\ ncalls' = [ncalls EXCEPT ![t] = 0]
              /\ resp' = [resp EXCEPT ![t] = "none"]
              /\ sawExpired' = [sawExpired EXCEPT ![t] = FALSE]
              /\ UNCHANGED <<ret, held, value, result>>
         ELSE /\ Finish(t, Ok(Body(consumer[t])))
              /\ UNCHANGED <<ncalls, resp, sawExpired>>
    /\ UNCHANGED <<call, consumer, store, now, storeUp, issued, expired, floored>>

NextConsumers ==
    \/ \E t \in Tasks : StartConsumer(t)
    \/ Tick
    \/ StoreDown
    \/ StoreRecover
    \/ \E t \in Tasks : OrgGetConn1(t)
    \/ \E t \in Tasks : OrgGet(t)
    \/ \E t \in Tasks : OrgIssue(t)
    \/ \E t \in Tasks : OrgGetConn2(t)
    \/ \E t \in Tasks : OrgSetex(t)
    \/ \E t \in Tasks : SetAppIssue(t)
    \/ \E t \in Tasks : SetAppGetConn(t)
    \/ \E t \in Tasks : SetAppSet(t)
    \/ \E t \in Tasks : GetAppGetConn(t)
    \/ \E t \in Tasks : GetAppGet(t)
    \/ \E t \in Tasks : ConsumerApi(t)

SpecConsumers == Init /\ [][NextConsumers]_vars

---------------------------------------------------------------------------
(* Vocabulary of the properties *)

\* task t takes the step that leaves position p
Leaves(t, p) == pc[t] = p /\ pc'[t] # p

\* task t is a finished get_access_token call
OrgDone(t) == pc[t] = "done" /\ call[t].op = "org"

\* the token string of the record task t is about to write or has parsed
Fresh(t) == TokenString(result[t].access_token)

\* the complete tenant record a SETEX at `time` leaves
TenantRecord(v, time) == [val |-> v, exp |-> Some(time + SETEX_SECONDS)]

\* the complete app record a SET leaves
AppRecord(v) == [val |-> v, exp |-> None]

---------------------------------------------------------------------------
(* C1: cache hit.  When the GET of get_access_token is answered with a     *)
(* value v stored under the corp id, the call ends there with Ok(v) and    *)
(* has made no Issuer call; and the tenant Issuer is only ever called by a *)
(* get_access_token that is past its GET and saw None.                     *)
C1_CacheHit ==
    /\ [][\A t \in Tasks :
            (Leaves(t, "org_get") /\ storeUp /\ RedisGet(store, call[t].corp_id, now) # None)
            => /\ pc'[t] = "done"
               /\ ret'[t] = Ok(RedisGet(store, call[t].corp_id, now)[1])
               /\ ncalls'[t] = 0
               /\ issued' = issued]_vars
    /\ [][\A t \in Tasks :
            (call[t].op = "org" /\ ncalls'[t] # ncalls[t])
            => pc[t] = "org_issue" /\ value[t] = None]_vars

C1_Witness ==
    \E t \in Tasks :
        /\ OrgDone(t) /\ ret[t].status = "ok" /\ ncalls[t] = 0
        /\ ret[t].val[1] = TokenString(1)
        /\ RedisGet(store, call[t].corp_id, now) = ret[t].val

(* C2: cache miss triggers issuance.  A get_access_token whose GET is      *)
(* answered "nothing" goes to the Issuer; when the Issuer succeeds with    *)
(* token t the call has made exactly one Issuer call, and its SETEX step   *)
(* returns Ok(t) and leaves a Store in which GET of the corp id gives t.   *)
C2_MissIssues ==
    /\ [][\A t \in Tasks :
            (Leaves(t, "org_get") /\ storeUp /\ RedisGet(store, call[t].corp_id, now) = None)
            => pc'[t] = "org_issue" /\ ncalls'[t] = 0]_vars
    /\ [][\A t \in Tasks :
            (Leaves(t, "org_issue") /\ resp'[t] = "ok")
            => /\ ncalls'[t] = 1
               /\ pc'[t] = "org_conn2"
               /\ result'[t].access_token = issued']_vars
    /\ [][\A t \in Tasks :
            (Leaves(t, "org_setex") /\ storeUp)
            => /\ ncalls'[t] = 1
               /\ ret'[t] = Ok(Fresh(t))
               /\ RedisGet(store', call[t].corp_id, now') = Some(Fresh(t))]_vars

C2_Witness ==
    \E t \in Tasks :
        /\ OrgDone(t) /\ ret[t].status = "ok" /\ ncalls[t] = 1
        /\ call[t].appid # call[t].corp_id
        /\ RedisGet(store, call[t].corp_id, now) = ret[t].val

(* C3: failure is not cached.  A get_access_token whose Issuer call fails  *)
(* returns an error in that step and leaves the Store as it was; and every *)
(* token record that appears in the Store is written by a call whose own   *)
(* Issuer call succeeded and parsed.                                       *)
C3_FailureNotCached ==
    /\ [][\A t \in Tasks :
            (Leaves(t, "org_issue") /\ resp'[t] = "failed")
            => pc'[t] = "done" /\ ret'[t] = Err /\ store' = store]_vars
    /\ [][\A k \in Ids :
            (store'[k] # store[k] /\ store'[k] # NoEntry /\ store'[k].val[1] = "tok")
            => \E t \in Tasks :
                 /\ pc[t] = "org_setex" /\ call[t].corp_id = k
                 /\ resp[t] = "ok" /\ ncalls[t] = 1
                 /\ store'[k].val = Fresh(t)]_vars
    /\ [](\A t \in Tasks : resp[t] = "failed" => pc[t] = "done" /\ ret[t] = Err)

C3_Witness ==
    \E t \in Tasks :
        /\ OrgDone(t) /\ resp[t] = "failed" /\ ret[t] = Err
        /\ RedisGet(store, call[t].corp_id, now) = None

(* C4: the time-to-live get_access_token hands to the Store equals the     *)
(* lifetime the Issuer declared for the token it writes.                   *)
C4_TtlIsDeclaredLifetime ==
    [][\A t \in Tasks :
         (Leaves(t, "org_setex") /\ storeUp)
         => store'[call[t].corp_id].exp = Some(now + result[t].expire_in)]_vars

(* C5: TTL is honored.  get_access_token writes its record with an expiry  *)
(* of T seconds from the write; no record is in the Store at or after its  *)
(* expiry; and a get_access_token whose GET comes when the record is gone  *)
(* goes to the Issuer instead of returning a token.                        *)
C5_TtlHonored ==
    /\ [][\A t \in Tasks :
            (Leaves(t, "org_setex") /\ storeUp)
            => /\ store'[call[t].corp_id].exp = Some(now + SETEX_SECONDS)
               /\ RedisGet(store', call[t].corp_id, now + SETEX_SECONDS) = None]_vars
    /\ [](\A k \in Ids : store[k].exp # None => store[k].exp[1] > now)
    /\ [][\A t \in Tasks :
            (Leaves(t, "org_get") /\ store[call[t].corp_id] = NoEntry)
            => pc'[t] = "org_issue" /\ ret'[t] = NoRet]_vars

C5_Witness ==
    \E t \in Tasks :
        /\ call[t].op = "org" /\ sawExpired[t] /\ resp[t] = "ok"
        /\ now >= SETEX_SECONDS

(* C6: domain isolation.  A get_access_token never returns a value the app *)
(* domain wrote, get_app_access_token never meets a value the tenant       *)
(* domain wrote, and neither domain's write replaces a record of the       *)
(* other, also when an application id and a corp id are the same string.   *)
C6_DomainIsolation ==
    /\ [](\A t \in Tasks :
            (OrgDone(t) /\ ret[t].status = "ok") => ret[t].val[1][1] = "tok")
    /\ [][\A t \in Tasks :
            (Leaves(t, "get_get") /\ storeUp /\ store[call[t].appid] # NoEntry)
            => store[call[t].appid].val[1] = "json"]_vars
    /\ [][\A k \in Ids :
            (store[k] # NoEntry /\ store'[k] # NoEntry)
            => store'[k].val[1] = store[k].val[1]]_vars

(* C7: idempotent re-issuance.  Every get_access_token that finds the key  *)
(* absent makes one issuance of a token not issued before, and its write   *)
(* leaves under the key exactly its own record: its token, the expiry      *)
(* counted from this write, nothing of the record that was there.          *)
C7_Reissue ==
    [][\A t \in Tasks :
         (Leaves(t, "org_setex") /\ storeUp)
         => /\ ncalls[t] = 1
            /\ store'[call[t].corp_id] = TenantRecord(Fresh(t), now)
            /\ store[call[t].corp_id].val # Fresh(t)
            /\ \A u \in Tasks \ {t} : ret[u] # Ok(Fresh(t))]_vars

C7_Witness ==
    \E t, u \in Tasks :
        /\ t # u /\ OrgDone(t) /\ OrgDone(u)
        /\ call[t].corp_id = call[u].corp_id
        /\ ncalls[u] = 1 /\ ret[u].status = "ok"
        /\ ncalls[t] = 1 /\ ret[t].status = "ok" /\ sawExpired[t]
        /\ ret[t] # ret[u]
        /\ \E time \in 0 .. MaxTime :
             /\ time >= SETEX_SECONDS
             /\ store[call[t].corp_id] = TenantRecord(ret[t].val[1], time)

(* C8: a Store failure is a hard error of the call.  When the connection   *)
(* cannot be obtained or the GET fails, the call ends in that step without *)
(* a token and without going to the Issuer.                                *)
C8_StoreFailureIsHard ==
    [][\A t \in Tasks :
         (~storeUp /\ (\/ Leaves(t, "org_conn1") \/ Leaves(t, "org_get")
                       \/ Leaves(t, "get_conn") \/ Leaves(t, "get_get")))
         => pc'[t] = "done" /\ ret'[t].status \in {"err", "panic"}]_vars

(* C9: every failure of a token operation reaches the caller as a returned *)
(* error; no operation ends in a panic of the calling task.                *)
C9_NoPanic == \A t \in Tasks : ret[t].status # "panic"

(* C10: stampede, last writer wins.  Whatever the interleaving, a key's    *)
(* entry changes only by one call's write, which leaves exactly that       *)
(* call's complete record (value and expiry of the same write), or by its  *)
(* expiry; so the entry is always the complete record of the write applied *)
(* last: a token with the expiry of its own write, issued to a call on     *)
(* this key.                                                               *)
C10_LastWriterWins ==
    /\ [][\A k \in Ids :
            store'[k] # store[k]
            => \/ \E t \in Tasks :
                    /\ pc[t] = "org_setex" /\ pc'[t] = "done" /\ call[t].corp_id = k
                    /\ store'[k] = TenantRecord(Fresh(t), now)
                    /\ ret'[t] = Ok(Fresh(t))
               \/ \E t \in Tasks :
                    /\ pc[t] = "set_set" /\ pc'[t] = "done" /\ call[t].appid = k
                    /\ store'[k] = AppRecord(to_string(result[t]))
               \/ /\ store'[k] = NoEntry
                  /\ store[k].exp # None /\ store[k].exp[1] <= now']_vars
    /\ [](\A k \in Ids :
            (store[k] # NoEntry /\ store[k].val[1] = "tok")
            => /\ store[k].exp # None
               /\ \E t \in Tasks :
                    /\ OrgDone(t) /\ call[t].corp_id = k
                    /\ ncalls[t] = 1 /\ ret[t] = Ok(store[k].val))

C10_Witness ==
    \E t, u \in Tasks :
        /\ t # u /\ OrgDone(t) /\ OrgDone(u)
        /\ call[t].corp_id = call[u].corp_id
        /\ ncalls[t] = 1 /\ ncalls[u] = 1
        /\ ret[t].status = "ok" /\ ret[u].status = "ok" /\ ret[t] # ret[u]
        /\ ~sawExpired[t] /\ ~sawExpired[u] /\ ~expired[call[t].corp_id]
        /\ store[call[t].corp_id] = TenantRecord(ret[t].val[1], now)
        /\ issued = 2

(* C11: cancellation safety.  When the future of a call in flight is       *)
(* dropped at any of its suspension points (pool, GET, Issuer, write), the  *)
(* entry of every key afterwards is what it was before or, for the key the  *)
(* call was writing, the one complete record of that write: the newly       *)
(* issued token together with the expiry of the same write (the JSON text   *)
(* in the app domain).  No token is ever in the Store without its expiry.   *)
C11_CancellationSafety ==
    /\ [][\A t \in Tasks :
            (Suspended(t) /\ ret'[t] = Cancelled)
            => /\ pc'[t] = "done" /\ held'[t] = 0
               /\ \A k \in Ids :
                    \/ store'[k] = store[k]
                    \/ /\ pc[t] = "org_setex" /\ k = call[t].corp_id /\ resp[t] = "ok"
                       /\ store'[k] = TenantRecord(Fresh(t), now)
                    \/ /\ pc[t] = "set_set" /\ k = call[t].appid /\ resp[t] = "ok"
                       /\ store'[k] = AppRecord(to_string(result[t]))]_vars
    /\ [](\A k \in Ids :
            (store[k] # NoEntry /\ store[k].val[1] = "tok")
            => store[k].exp # None /\ store[k].exp[1] > now)

C11_Witness ==
    \E t \in Tasks :
        /\ ret[t] = Cancelled /\ call[t].op = "org"
        /\ store[call[t].corp_id] # NoEntry
        /\ store[call[t].corp_id].val[1] = "tok"
        /\ store[call[t].corp_id].exp = Some(now + SETEX_SECONDS)
        /\ \A u \in Tasks : ret[u] # Ok(store[call[t].corp_id].val)

(* C12: a pooled connection serves one Store operation.  No task owns a    *)
(* pooled connection while it is suspended on the Issuer's network call,    *)
(* and no task owns more than one pooled connection at a time.              *)
C12_ConnectionPerOperation ==
    \A t \in Tasks :
        /\ held[t] <= 1
        /\ pc[t] \in {"org_issue", "set_issue"} => held[t] = 0

(* C13: declared lifetimes of zero and below.  Whatever lifetime the Issuer *)
(* declares, the call goes on to its write and completes with the token;    *)
(* the expiry it hands to the Store lies a positive number of seconds after *)
(* the write, and no token is in the Store without an expiry.               *)
C13_PositiveTtl ==
    /\ [][\A t \in Tasks :
            (Leaves(t, "org_issue") /\ resp'[t] = "ok")
            => pc'[t] = "org_conn2" /\ result'[t].expire_in \in DeclaredLifetimes]_vars
    /\ [][\A t \in Tasks :
            (Leaves(t, "org_setex") /\ storeUp)
            => /\ ret'[t] = Ok(Fresh(t))
               /\ store'[call[t].corp_id].exp # None
               /\ store'[call[t].corp_id].exp[1] - now > 0]_vars
    /\ [](\A k \in Ids :
            (store[k] # NoEntry /\ store[k].val[1] = "tok")
            => store[k].exp # None /\ store[k].exp[1] > now)

C13_Witness ==
    /\ floored
    /\ \E t \in Tasks :
         /\ OrgDone(t) /\ ncalls[t] = 1 /\ ret[t].status = "ok"
         /\ store[call[t].corp_id] = TenantRecord(ret[t].val[1], now)
    /\ \E e \in DeclaredLifetimes : e < 0

\* the positions inside a token function
TokenPositions == {"org_conn1", "org_get", "org_issue", "org_conn2", "org_setex",
                   "get_conn", "get_get"}

(* C14: read-only app-domain lookup.  When nothing is stored under the      *)
(* application id, the GET step of get_app_access_token ends the call with  *)
(* an error, the Store and the Issuer's count of issued tokens are as       *)
(* before; no get_app_access_token ever calls the Issuer or changes the     *)
(* Store; and a get_contact_userinfo whose lookup found nothing has failed  *)
(* in that step, without an API call and without an issuance.               *)
C14_ReadOnlyLookup ==
    /\ [][\A t \in Tasks :
            (Leaves(t, "get_get") /\ store[call[t].appid] = NoEntry)
            => /\ pc'[t] = "done" /\ ret'[t] = Err
               /\ store' = store /\ issued' = issued
               /\ ncalls'[t] = 0 /\ napi'[t] = 0]_vars
    /\ [][\A t \in Tasks :
            (call[t].op = "get_app" /\ pc'[t] # pc[t])
            => store' = store /\ issued' = issued /\ ncalls'[t] = 0]_vars
    /\ [](\A t \in Tasks :
            call[t].op = "get_app" => ncalls[t] = 0 /\ resp[t] = "none")

C14_Witness ==
    \E t \in Tasks :
        /\ consumer[t] = "get_contact_userinfo" /\ pc[t] = "done"
        /\ ret[t] = Err /\ napi[t] = 0 /\ ncalls[t] = 0
        /\ storeUp /\ store[call[t].appid] = NoEntry

\* the entry under key k is a record the app domain wrote
IsAppRecord(e) == e # NoEntry /\ e.val[1] = "json"

\* the entry under key k is a record the tenant domain wrote
IsTenantRecord(e) == e # NoEntry /\ e.val[1] = "tok"

(* C15: app-domain persistence.  A successful set_app_access_token leaves   *)
(* under the application id its record, without expiry; that record is      *)
(* replaced by nothing but the record of another successful exchange, and   *)
(* no passing of time removes it; and a get_app_access_token that reads it  *)
(* returns its access token, the one of the most recent exchange.           *)
C15_AppPersistence ==
    /\ [][\A t \in Tasks :
            (Leaves(t, "set_set") /\ storeUp)
            => store'[call[t].appid] = AppRecord(to_string(result[t]))]_vars
    /\ [][\A a \in AppIds :
            (IsAppRecord(store[a]) /\ store'[a] # store[a])
            => \E t \in Tasks :
                 /\ pc[t] = "set_set" /\ call[t].appid = a /\ resp[t] = "ok"
                 /\ store'[a] = AppRecord(to_string(result[t]))]_vars
    /\ [][\A t \in Tasks :
            (Leaves(t, "get_get") /\ storeUp /\ IsAppRecord(store[call[t].appid]))
            => ret'[t] = Ok(TokenString(from_str(store[call[t].appid].val).access_token))]_vars

(* C16: a failed exchange is not cached.  A set_app_access_token whose      *)
(* exchange fails (transport, status, body) returns an error in that step   *)
(* and leaves the Store as it was; and every app record that appears in the *)
(* Store is written by a call whose own exchange succeeded and parsed.      *)
C16_FailedExchangeNotCached ==
    /\ [][\A t \in Tasks :
            (Leaves(t, "set_issue") /\ resp'[t] = "failed")
            => pc'[t] = "done" /\ ret'[t] = Err /\ store' = store /\ issued' = issued]_vars
    /\ [][\A k \in Ids :
            (store'[k] # store[k] /\ IsAppRecord(store'[k]))
            => \E t \in Tasks :
                 /\ pc[t] = "set_set" /\ call[t].appid = k
                 /\ resp[t] = "ok" /\ ncalls[t] = 1
                 /\ store'[k] = AppRecord(to_string(result[t]))]_vars
    /\ [](\A t \in Tasks :
            (call[t].op = "set_app" /\ resp[t] = "failed")
            => pc[t] = "done" /\ ret[t] = Err)

C16_Witness ==
    \E t, u \in Tasks :
        /\ u < t /\ call[t].op = "set_app" /\ call[u].op = "set_app"
        /\ call[t].appid = call[u].appid
        /\ pc[u] = "done" /\ ret[u].status = "ok" /\ resp[u] = "ok"
        /\ pc[t] = "done" /\ ret[t] = Err /\ resp[t] = "failed"
        /\ store[call[t].appid] = AppRecord(to_string(AppAccessToken(1, ret[u].val[1][2],
                                                                      SETEX_SECONDS)))

(* C17: building a facade has no effect outside the facade.  The step that  *)
(* builds an OrgApp reads and writes nothing in the Store, takes no pooled  *)
(* connection and calls no Issuer; the facade's call stands at the first    *)
(* .await of get_access_token with nothing done yet.                        *)
C17_ConstructionIsPure ==
    /\ [][\A t \in Tasks :
            (Leaves(t, "idle") /\ call'[t].op = "org")
            => /\ pc'[t] = "org_conn1"
               /\ store' = store /\ held' = held
               /\ issued' = issued /\ ncalls' = ncalls /\ resp' = resp]_vars
    /\ [](\A t \in Tasks :
            pc[t] = "org_conn1"
            => /\ held[t] = 0 /\ ncalls[t] = 0 /\ resp[t] = "none"
               /\ value[t] = None /\ result[t] = NoResult)
    /\ [][\A t \in Tasks :
            (call'[t].op = "org" /\ (held'[t] > held[t] \/ ncalls'[t] > ncalls[t]))
            => pc[t] \in {"org_conn1", "org_issue", "org_conn2"}]_vars

C17_Witness ==
    \E t \in Tasks :
        /\ pc[t] = "org_conn1" /\ call[t].op = "org"
        /\ PoolInUse = 0 /\ issued = 0
        /\ \A k \in Ids : store[k] = NoEntry

IssuedTo(tok, a) ==
    \E u \in Tasks :
        /\ OrgDone(u) /\ ncalls[u] = 1 /\ resp[u] = "ok"
        /\ ret[u] = Ok(tok) /\ call[u].appid = a

(* C19: one cached token per (application, tenant).  A get_access_token     *)
(* returns only tokens that were issued to a call of its own application,   *)
(* and its write replaces only a record that was issued to its own          *)
(* application; so for two facades of different applications on one corp    *)
(* id neither reads nor replaces the other's token.                         *)
C19_PerApplicationCache ==
    /\ [](\A t \in Tasks :
            (OrgDone(t) /\ ret[t].status = "ok" /\ ret[t].val[1][1] = "tok")
            => IssuedTo(ret[t].val[1], call[t].appid))
    /\ [][\A t \in Tasks :
            (Leaves(t, "org_setex") /\ storeUp /\ IsTenantRecord(store[call[t].corp_id]))
            => IssuedTo(store[call[t].corp_id].val, call[t].appid)]_vars

\* the order of the positions of get_access_token
Rank(p) ==
    CASE p = "idle" -> 0
      [] p = "org_conn1" -> 1
      [] p = "org_get" -> 2
      [] p = "org_issue" -> 3
      [] p = "org_conn2" -> 4
      [] p = "org_setex" -> 5
      [] OTHER -> 6

(* C20: no retries.  A get_access_token passes its positions in the one     *)
(* order pool, GET, Issuer, pool, SETEX and never comes back to one it has  *)
(* left, so it makes at most one Store read, one Issuer call and one Store  *)
(* write, in that order; its Issuer call is the step from the Issuer        *)
(* position and its write the step from SETEX; and after a failed Issuer    *)
(* call it has returned, with one Issuer call made and the Store untouched. *)
C20_NoRetries ==
    /\ [][\A t \in Tasks :
            (call'[t].op = "org" /\ pc'[t] # pc[t]) => Rank(pc'[t]) > Rank(pc[t])]_vars
    /\ [][\A t \in Tasks :
            (call[t].op = "org" /\ ncalls'[t] # ncalls[t])
            => pc[t] = "org_issue" /\ pc'[t] # "org_issue" /\ ncalls'[t] = 1]_vars
    /\ [][\A k \in Ids :
            (store'[k] # store[k] /\ IsTenantRecord(store'[k]))
            => \E t \in Tasks : pc[t] = "org_setex" /\ pc'[t] = "done"
                                 /\ ncalls[t] = 1 /\ resp[t] = "ok"]_vars
    /\ [](\A t \in Tasks : ncalls[t] <= 1)
    /\ [](\A t \in Tasks :
            (call[t].op = "org" /\ resp[t] = "failed")
            => pc[t] = "done" /\ ncalls[t] = 1 /\ ret[t] = Err)
    /\ [][\A t \in Tasks :
            (call[t].op = "org" /\ pc[t] = "org_issue" /\ resp'[t] = "failed")
            => pc'[t] = "done" /\ store' = store]_vars

C20_Witness ==
    /\ \E t \in Tasks :
         /\ OrgDone(t) /\ resp[t] = "failed" /\ ncalls[t] = 1 /\ ret[t] = Err
         /\ ~sawExpired[t]
    /\ issued = 0
    /\ \A k \in Ids : store[k] = NoEntry /\ ~expired[k]

(* C21: one logical token per key.  A get_access_token succeeds in one of   *)
(* two steps only.  At its GET it returns the value the entry of its key    *)
(* holds at that moment, a live record, which is the one the last write to  *)
(* the key left; at its SETEX it returns the token its own Issuer call was  *)
(* given, and that token is then the value under the key.  Every token a    *)
(* finished call holds was written by the call that was issued it.          *)
C21_OneLogicalToken ==
    /\ [][\A t \in Tasks :
            (call[t].op = "org" /\ pc[t] # "done" /\ pc'[t] = "done"
             /\ ret'[t].status = "ok")
            => \/ /\ pc[t] = "org_get" /\ storeUp /\ ncalls'[t] = 0
                  /\ Live(store[call[t].corp_id], now)
                  /\ ret'[t] = Ok(store[call[t].corp_id].val)
                  /\ store' = store
               \/ /\ pc[t] = "org_setex" /\ ncalls'[t] = 1 /\ resp[t] = "ok"
                  /\ ret'[t] = Ok(Fresh(t))
                  /\ RedisGet(store', call[t].corp_id, now') = Some(Fresh(t))]_vars
    /\ [](\A t \in Tasks :
            (OrgDone(t) /\ ret[t].status = "ok" /\ ret[t].val[1][1] = "tok")
            => \E u \in Tasks :
                 /\ OrgDone(u) /\ ncalls[u] = 1 /\ resp[u] = "ok"
                 /\ call[u].corp_id = call[t].corp_id /\ ret[u] = ret[t])
    /\ [](\A t, u \in Tasks :
            (t # u /\ OrgDone(t) /\ OrgDone(u) /\ ncalls[t] = 1 /\ ncalls[u] = 1
             /\ ret[t].status = "ok" /\ ret[u].status = "ok")
            => ret[t] # ret[u])

C21_Witness ==
    \E t, u \in Tasks :
        /\ t # u /\ OrgDone(t) /\ OrgDone(u)
        /\ call[t].corp_id = call[u].corp_id
        /\ ncalls[t] = 1 /\ resp[t] = "ok" /\ ret[t].status = "ok"
        /\ ncalls[u] = 0 /\ ret[u] = ret[t]
        /\ store[call[t].corp_id].val = ret[t].val[1]

\* task t owns a pooled connection and waits for another one
WaitsHolding(t) == held[t] > 0 /\ pc[t] \in {"org_conn1", "org_conn2", "set_conn", "get_conn"}

(* C22: progress under a bounded pool.  In no reachable state are all the   *)
(* connections of the pool owned by calls that each wait for another        *)
(* connection (from such a state no call would ever return).                *)
C22_NoPoolDeadlock ==
    ~(/\ PoolInUse = PoolSize
      /\ \A t \in Tasks : held[t] > 0 => WaitsHolding(t))

(* C23: tenant isolation as a frame condition.  A step of a                 *)
(* get_access_token for corp id k leaves the entry of every other key as it *)
(* was; what its GET yields is decided by the entry of k alone; and a value *)
(* returned to a call for k is returned to no call for another corp id, a   *)
(* token among them having been issued to a call for k.                     *)
C23_TenantFrame ==
    /\ [][\A t \in Tasks :
            (call[t].op = "org" /\ pc'[t] # pc[t])
            => \A k \in Ids \ {call[t].corp_id} : store'[k] = store[k]]_vars
    /\ [][\A t \in Tasks :
            (Leaves(t, "org_get") /\ storeUp)
            => IF Live(store[call[t].corp_id], now)
               THEN pc'[t] = "done" /\ ret'[t] = Ok(store[call[t].corp_id].val)
               ELSE pc'[t] = "org_issue"]_vars
    /\ [](\A t, u \in Tasks :
            (OrgDone(t) /\ OrgDone(u) /\ ret[t].status = "ok" /\ ret[t] = ret[u])
            => call[t].corp_id = call[u].corp_id)
    /\ [](\A k \in Ids :
            IsTenantRecord(store[k])
            => \E u \in Tasks :
                 /\ OrgDone(u) /\ call[u].corp_id = k /\ ncalls[u] = 1
                 /\ ret[u] = Ok(store[k].val))

C23_Witness ==
    \E t, u \in Tasks :
        /\ OrgDone(t) /\ OrgDone(u) /\ call[t].corp_id # call[u].corp_id
        /\ ret[t].status = "ok" /\ ret[u].status = "ok" /\ ret[t] # ret[u]
        /\ RedisGet(store, call[t].corp_id, now) = ret[t].val
        /\ RedisGet(store, call[u].corp_id, now) = ret[u].val
        /\ now > 0

=============================================================================
